---- MODULE Spec2Model ----
(***************************************************************************)
(* Model of ext/mixed/js/core.js: the EventDispatcher class (on, off,      *)
(* trigger) and the Yomichan singleton that routes inbound runtime         *)
(* messages (getUrl, optionsUpdate) and raises the local event orphaned    *)
(* (Spec); promiseTimeout and the holder of its promise (SpecTimeout);     *)
(* stringReplaceAsync (SpecReplace); errorToJson and jsonToError           *)
(* (SpecJson).  Each specification moves its own variables and leaves the  *)
(* others as they start.                                                   *)
(*                                                                         *)
(* JavaScript is single threaded and every operation modelled here runs to *)
(* completion, so each public call is one action.  A call's effect is      *)
(* computed by operators that follow the code statement by statement; the  *)
(* listeners a call invokes run inside the call, including the calls they  *)
(* make back into the dispatcher.  Each action records the call (with the  *)
(* listener map it started from), the log of what happened during it, the  *)
(* value it returned and whether an exception escaped it.                  *)
(***************************************************************************)
EXTENDS Integers, Sequences, FiniteSets, TLC

\* ------------------------------------------------------------------------
\* Bounds and input sets
\* ------------------------------------------------------------------------

\* Largest number of registrations (summed over all events) the environment
\* builds up.
MaxListeners == 3

\* Largest delay, in clock ticks, handed to promiseTimeout.
MaxDelay == 2

\* Largest number of settling events (resolve and reject calls of the holder
\* and timer expiries) followed for one promise.
MaxCalls == 3

\* Longest string handed to stringReplaceAsync.
MaxLen == 3

\* Largest number of iterations of the match loop followed.
MaxIter == 4

\* Event names used by callers: the two the singleton raises itself.
EventNames == {"optionsUpdate", "orphaned"}

\* Listener functions handed to on/off.  L1 and L2 just return; LThrow
\* throws; LOff calls off(e, LOff) for the event e it is registered on; LOn
\* calls on(e, L1) for the event e it is registered on.
Listeners == {"L1", "L2", "LThrow", "LOff", "LOn"}

\* What the body of a listener does when invoked.
Body(callback) ==
    CASE callback = "LThrow" -> "throw"
      [] callback = "LOff" -> "offSelf"
      [] callback = "LOn" -> "onL1"
      [] OTHER -> "return"

\* Arguments of the calls.
DetailValues == {"d1", "d2"}
Sources == {"S1", "S2"}
Errors == {"E1"}
Urls == {"u1", "u2"}
Actions == {"getUrl", "optionsUpdate", "doesNotExist"}

\* params objects of inbound messages: {} and {source: S}.
EmptyParams == [empty |-> TRUE]
ParamsSet == {EmptyParams} \cup {[source |-> s] : s \in Sources}

\* ------------------------------------------------------------------------
\* JavaScript values
\* ------------------------------------------------------------------------

JsUndefined == [t |-> "undefined"]
JsFalse == [t |-> "boolean", b |-> FALSE]
JsTrue == [t |-> "boolean", b |-> TRUE]
\* No value: the call did not return (an exception escaped).
NoValue == [t |-> "none"]

\* ToBoolean of the values above: undefined and false are falsy, true and
\* objects are truthy.
Truthy(v) ==
    CASE v.t = "boolean" -> v.b
      [] v.t = "object" -> TRUE
      [] OTHER -> FALSE

\* ------------------------------------------------------------------------
\* Map and Array primitives
\* ------------------------------------------------------------------------

\* new Map()
EmptyMap == [k \in {} |-> <<>>]

\* Map.prototype.set
MapSet(map, key, value) ==
    [k \in (DOMAIN map) \cup {key} |-> IF k = key THEN value ELSE map[k]]

\* Map.prototype.delete
MapDelete(map, key) == [k \in (DOMAIN map) \ {key} |-> map[k]]

\* Array.prototype.splice(i, 1) with a 1-based index i.
Splice(array, i) ==
    SubSeq(array, 1, i - 1) \o SubSeq(array, i + 1, Len(array))

\* The scan of off: the least index whose element is identical to callback,
\* 0 when the scan reaches the end of the array.
FirstIndex(array, callback) ==
    IF \E i \in 1..Len(array) : array[i] = callback
        THEN CHOOSE i \in 1..Len(array) :
                /\ array[i] = callback
                /\ \A j \in 1..(i - 1) : array[j] # callback
        ELSE 0

\* ------------------------------------------------------------------------
\* EventDispatcher
\* ------------------------------------------------------------------------

\* Entries of the log of a call.
\* callback(details) was invoked:
Invoked(callback, details) ==
    [type |-> "listener", callback |-> callback, details |-> details]
\* a listener called on(eventName, callback):
CalledOn(eventName, callback) ==
    [type |-> "on", eventName |-> eventName, callback |-> callback]
\* a listener called off(eventName, callback); present tells whether
\* callback occurred in eventName's array when the call was made:
CalledOff(eventName, callback, present) ==
    [type |-> "off", eventName |-> eventName, callback |-> callback,
     present |-> present]
\* the reply callback of the channel was invoked with value:
Replied(value) == [type |-> "reply", value |-> value]

\* Whether callback occurs in eventName's array of map.
Present(map, eventName, callback) ==
    /\ eventName \in DOMAIN map
    /\ \E i \in 1..Len(map[eventName]) : map[eventName][i] = callback

\* Variant of On: a listener already registered is not registered again.
On_dedup(map, eventName, callback) ==
    LET callbacks == IF eventName \in DOMAIN map THEN map[eventName] ELSE <<>>
    IN IF \E i \in 1..Len(callbacks) : callbacks[i] = callback
           THEN map
           ELSE MapSet(map, eventName, Append(callbacks, callback))

\* on(eventName, callback): the listener map after the call.
On(map, eventName, callback) ==
    LET callbacks == IF eventName \in DOMAIN map THEN map[eventName] ELSE <<>>
    IN MapSet(map, eventName, Append(callbacks, callback))

\* Variant of Off: the entry of an emptied array is kept.
Off_keepEmpty(map, eventName, callback) ==
    IF eventName \notin DOMAIN map
        THEN [map |-> map, ret |-> JsTrue]
        ELSE LET callbacks == map[eventName]
                 i == FirstIndex(callbacks, callback)
             IN IF i = 0
                    THEN [map |-> map, ret |-> JsFalse]
                    ELSE [map |-> MapSet(map, eventName, Splice(callbacks, i)),
                          ret |-> JsTrue]

\* off(eventName, callback): the listener map after the call and the value
\* returned.
Off(map, eventName, callback) ==
    IF eventName \notin DOMAIN map
        THEN [map |-> map, ret |-> JsTrue]
        ELSE LET callbacks == map[eventName]
                 i == FirstIndex(callbacks, callback)
             IN IF i = 0
                    THEN [map |-> map, ret |-> JsFalse]
                    ELSE LET spliced == Splice(callbacks, i)
                         IN [map |-> IF Len(spliced) = 0
                                         THEN MapDelete(map, eventName)
                                         ELSE MapSet(map, eventName, spliced),
                             ret |-> JsTrue]

\* callback(details) inside the loop of trigger(eventName, ...): logs the
\* invocation and runs the listener's body.  st = [map, trace, threw].
Invoke(callback, eventName, details, st) ==
    LET logged == Append(st.trace, Invoked(callback, details))
    IN CASE Body(callback) = "throw" ->
                [map |-> st.map, trace |-> logged, threw |-> TRUE]
         [] Body(callback) = "offSelf" ->
                [map |-> Off(st.map, eventName, callback).map,
                 trace |-> Append(logged,
                     CalledOff(eventName, callback,
                               Present(st.map, eventName, callback))),
                 threw |-> FALSE]
         [] Body(callback) = "onL1" ->
                [map |-> On(st.map, eventName, "L1"),
                 trace |-> Append(logged, CalledOn(eventName, "L1")),
                 threw |-> FALSE]
         [] OTHER ->
                [map |-> st.map, trace |-> logged, threw |-> FALSE]

\* Variant of ForOf: a listener's exception is caught and the loop goes on.
RECURSIVE ForOf_catch(_, _, _, _)
ForOf_catch(eventName, details, i, st) ==
    IF eventName \notin DOMAIN st.map THEN st
    ELSE IF i > Len(st.map[eventName]) THEN st
    ELSE LET st1 == Invoke(st.map[eventName][i], eventName, details, st)
         IN ForOf_catch(eventName, details, i + 1,
                        [map |-> st1.map, trace |-> st1.trace, threw |-> FALSE])

\* for (const callback of callbacks) { callback(details); } from the
\* iterator's position i on.  The array iterator reads the array's current
\* length and element at every step, and callbacks is the very array the
\* map holds for eventName: a listener's on/off changes what is iterated.
\* off deletes the entry only once the array is empty, so an array no
\* longer in the map has length 0 and ends the loop.  A throwing listener
\* ends the loop with the exception.
RECURSIVE ForOf(_, _, _, _)
ForOf(eventName, details, i, st) ==
    IF eventName \notin DOMAIN st.map THEN st
    ELSE IF i > Len(st.map[eventName]) THEN st
    ELSE LET st1 == Invoke(st.map[eventName][i], eventName, details, st)
         IN IF st1.threw THEN st1
            ELSE ForOf(eventName, details, i + 1, st1)

\* Variant of ForOf: the array is walked from index i down to its start.
RECURSIVE ForOfDown(_, _, _, _)
ForOfDown(eventName, details, i, st) ==
    IF eventName \notin DOMAIN st.map THEN st
    ELSE IF i < 1 \/ i > Len(st.map[eventName]) THEN st
    ELSE LET st1 == Invoke(st.map[eventName][i], eventName, details, st)
         IN IF st1.threw THEN st1
            ELSE ForOfDown(eventName, details, i - 1, st1)

\* Variant of Trigger: the listeners are invoked last registered first.
Trigger_reversed(map, eventName, details) ==
    IF eventName \notin DOMAIN map
        THEN [map |-> map, trace |-> <<>>, ret |-> JsFalse, threw |-> FALSE]
        ELSE LET st == ForOfDown(eventName, details, Len(map[eventName]),
                                 [map |-> map, trace |-> <<>>, threw |-> FALSE])
             IN [map |-> st.map, trace |-> st.trace,
                 ret |-> IF st.threw THEN NoValue ELSE JsUndefined,
                 threw |-> st.threw]

\* Variant of Trigger: a missing entry is treated as an empty array.
Trigger_noEntryCheck(map, eventName, details) ==
    LET st == ForOf(eventName, details, 1,
                    [map |-> map, trace |-> <<>>, threw |-> FALSE])
    IN [map |-> st.map, trace |-> st.trace,
        ret |-> IF st.threw THEN NoValue ELSE JsUndefined,
        threw |-> st.threw]

\* trigger(eventName, details): the listener map after the call, the log,
\* the value returned and whether an exception escaped.
Trigger(map, eventName, details) ==
    IF eventName \notin DOMAIN map
        THEN [map |-> map, trace |-> <<>>, ret |-> JsFalse, threw |-> FALSE]
        ELSE LET st == ForOf(eventName, details, 1,
                             [map |-> map, trace |-> <<>>, threw |-> FALSE])
             IN [map |-> st.map, trace |-> st.trace,
                 ret |-> IF st.threw THEN NoValue ELSE JsUndefined,
                 threw |-> st.threw]

\* ------------------------------------------------------------------------
\* Yomichan (the message-routing singleton)
\* ------------------------------------------------------------------------

\* this._messageHandlers as the constructor builds it.
MessageHandlersInit ==
    [getUrl |-> "_onMessageGetUrl", optionsUpdate |-> "_onMessageOptionsUpdate"]

\* {url: window.location.href}
UrlObject(location) == [t |-> "object", url |-> location]

\* The destructuring {source} of a params object: undefined when the
\* property is missing.
SourceOf(params) ==
    IF "source" \in DOMAIN params THEN params.source ELSE "undefined"

\* Variant of OnMessageGetUrl: the location read at construction time.
OnMessageGetUrl_stale(map, location) ==
    [map |-> map, trace |-> <<>>, ret |-> UrlObject("u1"), threw |-> FALSE]

\* _onMessageGetUrl()
OnMessageGetUrl(map, location) ==
    [map |-> map, trace |-> <<>>, ret |-> UrlObject(location), threw |-> FALSE]

\* _onMessageOptionsUpdate({source}): the value of trigger is dropped.
OnMessageOptionsUpdate(map, params) ==
    LET t == Trigger(map, "optionsUpdate", [source |-> SourceOf(params)])
    IN [map |-> t.map, trace |-> t.trace,
        ret |-> IF t.threw THEN NoValue ELSE JsUndefined,
        threw |-> t.threw]

\* handler(params, sender) for the handler named by the table.
CallHandler(handler, map, location, params) ==
    IF handler = "_onMessageGetUrl"
        THEN OnMessageGetUrl(map, location)
        ELSE OnMessageOptionsUpdate(map, params)

\* Variant of OnMessage: a handler's exception is caught and answered.
OnMessage_catch(map, handlers, location, action, params) ==
    IF action \notin DOMAIN handlers
        THEN [map |-> map, trace |-> <<>>, ret |-> JsFalse, threw |-> FALSE]
        ELSE LET h == CallHandler(handlers[action], map, location, params)
             IN [map |-> h.map,
                 trace |-> Append(h.trace,
                     Replied(IF h.threw THEN JsUndefined ELSE h.ret)),
                 ret |-> JsFalse, threw |-> FALSE]

\* Variant of OnMessage: the reply is sent before the handler runs.
OnMessage_replyFirst(map, handlers, location, action, params) ==
    IF action \notin DOMAIN handlers
        THEN [map |-> map, trace |-> <<>>, ret |-> JsFalse, threw |-> FALSE]
        ELSE LET h == CallHandler(handlers[action], map, location, params)
             IN IF h.threw
                    THEN [map |-> h.map, trace |-> h.trace, ret |-> NoValue,
                          threw |-> TRUE]
                    ELSE [map |-> h.map,
                          trace |-> <<Replied(h.ret)>> \o h.trace,
                          ret |-> JsFalse, threw |-> FALSE]

\* Variant of OnMessage: an unknown action is answered with undefined.
OnMessage_replyUnknown(map, handlers, location, action, params) ==
    IF action \notin DOMAIN handlers
        THEN [map |-> map, trace |-> <<Replied(JsUndefined)>>, ret |-> JsFalse,
              threw |-> FALSE]
        ELSE LET h == CallHandler(handlers[action], map, location, params)
             IN IF h.threw
                    THEN [map |-> h.map, trace |-> h.trace, ret |-> NoValue,
                          threw |-> TRUE]
                    ELSE [map |-> h.map,
                          trace |-> Append(h.trace, Replied(h.ret)),
                          ret |-> JsFalse, threw |-> FALSE]

\* _onMessage({action, params}, sender, callback)
OnMessage(map, handlers, location, action, params) ==
    IF action \notin DOMAIN handlers
        THEN [map |-> map, trace |-> <<>>, ret |-> JsFalse, threw |-> FALSE]
        ELSE LET h == CallHandler(handlers[action], map, location, params)
             IN IF h.threw
                    THEN [map |-> h.map, trace |-> h.trace, ret |-> NoValue,
                          threw |-> TRUE]
                    ELSE [map |-> h.map,
                          trace |-> Append(h.trace, Replied(h.ret)),
                          ret |-> JsFalse, threw |-> FALSE]

\* Variant of TriggerOrphaned: the event raised is optionsUpdate.
TriggerOrphaned_optionsUpdate(map, error) ==
    LET t == Trigger(map, "optionsUpdate", [error |-> error])
    IN [map |-> t.map, trace |-> t.trace,
        ret |-> IF t.threw THEN NoValue ELSE JsUndefined,
        threw |-> t.threw]

\* triggerOrphaned(error): the value of trigger is dropped.
TriggerOrphaned(map, error) ==
    LET t == Trigger(map, "orphaned", [error |-> error])
    IN [map |-> t.map, trace |-> t.trace,
        ret |-> IF t.threw THEN NoValue ELSE JsUndefined,
        threw |-> t.threw]

\* ------------------------------------------------------------------------
\* State
\* ------------------------------------------------------------------------

VARIABLES
    eventMap,         \* this._eventMap: event name -> array of listeners
    messageHandlers,  \* this._messageHandlers: action -> handler
    href,             \* window.location.href
    call,             \* the last call made, with the listener map before it
    trace,            \* the log of the last call
    ret,              \* the value the last call returned
    threw,            \* whether an exception escaped the last call
    registered,       \* history: per event and listener, the number of on
                      \* calls minus the number of off calls made while an
                      \* occurrence was registered
    \* promiseTimeout(delay, resolveValue)
    delay,            \* the delay argument, 0 before the call
    resolveValue,     \* the resolveValue argument
    timer,            \* let timer: "null" or the id setTimeout returned
    promiseResolve,   \* let promiseResolve: "null" or the promise's resolver
    promiseReject,    \* let promiseReject: "null" or the promise's rejecter
    promise,          \* the promise returned: state, value, own properties
    windowTimers,     \* timers pending in window: id and ticks remaining
    settleCalls,      \* the calls callback(value) made by complete
    history,          \* history: holder's resolve/reject calls and timer
                      \* expiries, in order
    typeError,        \* whether the holder's last call raised a TypeError
    \* stringReplaceAsync(str, regex, replacer)
    str,              \* the str argument, a sequence of characters
    regex,            \* the regex argument: pattern, global flag, lastIndex
    index,            \* let index
    parts,            \* const parts: strings and replacer results
    matches,          \* the calls replacer(...match, match.index, str) made
    pc,               \* where the call is: idle, loop, all (waiting for
                      \* Promise.all), done
    returned,         \* the promise stringReplaceAsync returned
    completed,        \* history: the indices of the parts that settled, in
                      \* the order they settled
    \* errorToJson(error) / jsonToError(jsonError)
    errorObject,      \* the error object at hand
    jsonError,        \* the envelope last produced by errorToJson
    firstJson,        \* history: the envelope of the original error
    stage             \* how far the round trip has got: 0 to 3

dispatcherVars ==
    <<eventMap, messageHandlers, href, call, trace, ret, threw, registered>>

timeoutVars ==
    <<delay, resolveValue, timer, promiseResolve, promiseReject, promise,
      windowTimers, settleCalls, history, typeError>>

replaceVars == <<str, regex, index, parts, matches, pc, returned, completed>>

\* The state outside the dispatcher and the router.
jsonVars == <<errorObject, jsonError, firstJson, stage>>

asyncVars == <<timeoutVars, replaceVars, jsonVars>>

vars == <<dispatcherVars, asyncVars>>

\* No promise has been made: promiseTimeout has not been called.
NoPromise == [state |-> "none", value |-> "none", resolve |-> FALSE,
              reject |-> FALSE]

TimeoutIdle ==
    /\ delay = 0
    /\ resolveValue = "none"
    /\ timer = "null"
    /\ promiseResolve = "null"
    /\ promiseReject = "null"
    /\ promise = NoPromise
    /\ windowTimers = {}
    /\ settleCalls = <<>>
    /\ history = <<>>
    /\ typeError = FALSE

NoArg == [none |-> TRUE]

\* The record of a call: operation, arguments, listener map before it.
Call(op, eventName, callback, arg, pre) ==
    [op |-> op, eventName |-> eventName, callback |-> callback, arg |-> arg,
     pre |-> pre]

\* Number of registrations in the map, over all events.
RECURSIVE SumLen(_, _)
SumLen(map, names) ==
    IF names = {} THEN 0
    ELSE LET n == CHOOSE x \in names : TRUE
         IN Len(map[n]) + SumLen(map, names \ {n})

Total(map) == SumLen(map, DOMAIN map)

\* The history counter after one on / one off call.
RegOn(reg, eventName, callback) ==
    [reg EXCEPT ![eventName][callback] = @ + 1]

RegOff(reg, eventName, callback, present) ==
    IF present THEN [reg EXCEPT ![eventName][callback] = @ - 1] ELSE reg

\* The history counter after the on/off calls a log records.
RECURSIVE RegAfter(_, _)
RegAfter(reg, log) ==
    IF log = <<>> THEN reg
    ELSE LET x == Head(log)
             reg1 == CASE x.type = "on" -> RegOn(reg, x.eventName, x.callback)
                       [] x.type = "off" ->
                            RegOff(reg, x.eventName, x.callback, x.present)
                       [] OTHER -> reg
         IN RegAfter(reg1, Tail(log))

\* The dispatcher and the router as their constructors leave them.
DispatcherInit ==
    /\ eventMap = EmptyMap
    /\ messageHandlers = MessageHandlersInit
    /\ href \in Urls
    /\ call = Call("new", "", "", NoArg, EmptyMap)
    /\ trace = <<>>
    /\ ret = JsUndefined
    /\ threw = FALSE
    /\ registered = [e \in EventNames |-> [l \in Listeners |-> 0]]

\* stringReplaceAsync has not been called.
ReplaceIdle ==
    /\ str = <<>>
    /\ regex = [pattern |-> "a+", global |-> TRUE, lastIndex |-> 0]
    /\ index = 0
    /\ parts = <<>>
    /\ matches = <<>>
    /\ pc = "idle"
    /\ returned = [state |-> "none", value |-> <<>>]
    /\ completed = <<>>

\* A string and a number as JavaScript values.
JsString(text) == [t |-> "string", s |-> text]
JsNumber(text) == [t |-> "number", n |-> text]

\* {name, message, stack} object with the given property values.
ErrorLike(name, message, stack) ==
    [name |-> name, message |-> message, stack |-> stack]

\* No error is at hand.
JsonIdle ==
    /\ errorObject = ErrorLike(JsUndefined, JsUndefined, JsUndefined)
    /\ jsonError = ErrorLike(JsUndefined, JsUndefined, JsUndefined)
    /\ firstJson = ErrorLike(JsUndefined, JsUndefined, JsUndefined)
    /\ stage = 0

Init ==
    /\ DispatcherInit
    /\ TimeoutIdle
    /\ ReplaceIdle
    /\ JsonIdle

\* ------------------------------------------------------------------------
\* Actions: one per call the page or the channel can make
\* ------------------------------------------------------------------------

\* yomichan.on(eventName, callback)
DoOn(eventName, callback) ==
    /\ Total(eventMap) < MaxListeners
    /\ eventMap' = On(eventMap, eventName, callback)
    /\ call' = Call("on", eventName, callback, NoArg, eventMap)
    /\ trace' = <<>>
    /\ ret' = JsUndefined
    /\ threw' = FALSE
    /\ registered' = RegOn(registered, eventName, callback)
    /\ UNCHANGED <<messageHandlers, href, asyncVars>>

\* yomichan.off(eventName, callback)
DoOff(eventName, callback) ==
    LET r == Off(eventMap, eventName, callback)
    IN /\ eventMap' = r.map
       /\ call' = Call("off", eventName, callback, NoArg, eventMap)
       /\ trace' = <<>>
       /\ ret' = r.ret
       /\ threw' = FALSE
       /\ registered' = RegOff(registered, eventName, callback,
                               Present(eventMap, eventName, callback))
       /\ UNCHANGED <<messageHandlers, href, asyncVars>>

\* The common part of the calls that may run listeners.
Finish(op, eventName, arg, r) ==
    /\ Total(r.map) <= MaxListeners
    /\ eventMap' = r.map
    /\ call' = Call(op, eventName, "", arg, eventMap)
    /\ trace' = r.trace
    /\ ret' = r.ret
    /\ threw' = r.threw
    /\ registered' = RegAfter(registered, r.trace)
    /\ UNCHANGED <<messageHandlers, href, asyncVars>>

\* yomichan.trigger(eventName, details)
DoTrigger(eventName, details) ==
    Finish("trigger", eventName, details, Trigger(eventMap, eventName, details))

\* yomichan.triggerOrphaned(error)
DoTriggerOrphaned(error) ==
    Finish("triggerOrphaned", "", [error |-> error],
           TriggerOrphaned(eventMap, error))

\* chrome.runtime.onMessage delivers {action, params} to _onMessage.
DoOnMessage(action, params) ==
    Finish("onMessage", action, params,
           OnMessage(eventMap, messageHandlers, href, action, params))

\* The page navigates: window.location.href changes.  No call into the
\* program is made; the record of the last call is reset.
Navigate(url) ==
    /\ url # href
    /\ href' = url
    /\ call' = Call("navigate", "", "", NoArg, eventMap)
    /\ trace' = <<>>
    /\ ret' = JsUndefined
    /\ threw' = FALSE
    /\ UNCHANGED <<eventMap, messageHandlers, registered, asyncVars>>

Next ==
    \/ \E e \in EventNames, l \in Listeners : DoOn(e, l)
    \/ \E e \in EventNames, l \in Listeners : DoOff(e, l)
    \/ \E e \in EventNames, d \in DetailValues : DoTrigger(e, [value |-> d])
    \/ \E x \in Errors : DoTriggerOrphaned(x)
    \/ \E a \in Actions, p \in ParamsSet : DoOnMessage(a, p)
    \/ \E u \in Urls : Navigate(u)

Spec == Init /\ [][Next]_vars

\* ------------------------------------------------------------------------
\* promiseTimeout
\* ------------------------------------------------------------------------

\* Arguments of the calls.
Delays == (0 - 1)..MaxDelay
Values == {"v1", "v2"}

\* The local variables of one promiseTimeout call, the promise it returned
\* and the timers of window, as one record.
Closure ==
    [timer |-> timer, promiseResolve |-> promiseResolve,
     promiseReject |-> promiseReject, promise |-> promise,
     windowTimers |-> windowTimers, settleCalls |-> settleCalls]

\* The resolve and reject functions the Promise constructor hands to its
\* executor: the first call settles the promise, later calls do nothing.
NativeSettle(p, callback, value) ==
    IF p.state = "pending"
        THEN [p EXCEPT !.state = IF callback = "resolveFn" THEN "fulfilled"
                                                            ELSE "rejected",
                       !.value = value]
        ELSE p

\* Variant of Complete: the pending timer is not cleared.
Complete_noClear(c, callback, value) ==
    IF callback = "null" THEN c
    ELSE [timer |-> "null",
          promiseResolve |-> "null",
          promiseReject |-> "null",
          promise |-> NativeSettle(c.promise, callback, value),
          windowTimers |-> c.windowTimers,
          settleCalls |-> Append(c.settleCalls,
                                 [callback |-> callback, value |-> value])]

\* Variant of Complete: promiseResolve and promiseReject are not reset.
Complete_noReset(c, callback, value) ==
    IF callback = "null" THEN c
    ELSE [timer |-> "null",
          promiseResolve |-> c.promiseResolve,
          promiseReject |-> c.promiseReject,
          promise |-> NativeSettle(c.promise, callback, value),
          windowTimers |-> IF c.timer # "null"
                               THEN {t \in c.windowTimers : t.id # c.timer}
                               ELSE c.windowTimers,
          settleCalls |-> Append(c.settleCalls,
                                 [callback |-> callback, value |-> value])]

\* complete(callback, value)
Complete(c, callback, value) ==
    IF callback = "null" THEN c
    ELSE [timer |-> "null",
          promiseResolve |-> "null",
          promiseReject |-> "null",
          promise |-> NativeSettle(c.promise, callback, value),
          windowTimers |-> IF c.timer # "null"
                               THEN {t \in c.windowTimers : t.id # c.timer}
                               ELSE c.windowTimers,
          settleCalls |-> Append(c.settleCalls,
                                 [callback |-> callback, value |-> value])]

\* resolve(value) and reject(value)
Resolve(c, value) == Complete(c, c.promiseResolve, value)
Reject(c, value) == Complete(c, c.promiseReject, value)

\* The function handed to setTimeout.
TimerCallback(c, value) == Resolve([c EXCEPT !.timer = "null"], value)

\* promiseTimeout(d, v): the closure and the promise when the call returns.
\* With d <= 0 the promise is Promise.resolve(v), which has no resolve and
\* reject properties of its own and no timer.
PromiseTimeout(d, v, timers) ==
    IF d <= 0
        THEN [timer |-> "null", promiseResolve |-> "null",
              promiseReject |-> "null",
              promise |-> [state |-> "fulfilled", value |-> v,
                           resolve |-> FALSE, reject |-> FALSE],
              windowTimers |-> timers, settleCalls |-> <<>>]
        ELSE [timer |-> "t1", promiseResolve |-> "resolveFn",
              promiseReject |-> "rejectFn",
              promise |-> [state |-> "pending", value |-> "none",
                           resolve |-> TRUE, reject |-> TRUE],
              windowTimers |-> timers \cup {[id |-> "t1", remaining |-> d]},
              settleCalls |-> <<>>]

\* The closure record written back to the variables.
SetClosure(c) ==
    /\ timer' = c.timer
    /\ promiseResolve' = c.promiseResolve
    /\ promiseReject' = c.promiseReject
    /\ promise' = c.promise
    /\ windowTimers' = c.windowTimers
    /\ settleCalls' = c.settleCalls

InitTimeout ==
    /\ DispatcherInit
    /\ href = "u1"
    /\ TimeoutIdle
    /\ ReplaceIdle
    /\ JsonIdle

\* const promise = promiseTimeout(d, v)
DoPromiseTimeout(d, v) ==
    /\ promise.state = "none"
    /\ delay' = d
    /\ resolveValue' = v
    /\ SetClosure(PromiseTimeout(d, v, windowTimers))
    /\ UNCHANGED <<history, typeError, dispatcherVars, replaceVars, jsonVars>>

\* One tick of the clock passes.
Tick ==
    /\ \E t \in windowTimers : t.remaining > 0
    /\ windowTimers' =
          {[id |-> t.id,
            remaining |-> IF t.remaining > 0 THEN t.remaining - 1 ELSE 0] :
              t \in windowTimers}
    /\ UNCHANGED <<delay, resolveValue, timer, promiseResolve, promiseReject,
                   promise, settleCalls, history, typeError, dispatcherVars,
                   replaceVars, jsonVars>>

\* The delay has elapsed: window drops the timer and runs its function.
TimerExpires ==
    /\ Len(history) < MaxCalls
    /\ \E t \in windowTimers :
          /\ t.remaining = 0
          /\ SetClosure(TimerCallback(
                [Closure EXCEPT !.windowTimers = windowTimers \ {t}],
                resolveValue))
    /\ history' = Append(history, [op |-> "timeout", value |-> resolveValue])
    /\ typeError' = FALSE
    /\ UNCHANGED <<delay, resolveValue, dispatcherVars, replaceVars, jsonVars>>

\* The holder calls promise.resolve(x): a TypeError when the promise has no
\* such property.
CallResolve(x) ==
    /\ promise.state # "none"
    /\ Len(history) < MaxCalls
    /\ IF promise.resolve
          THEN SetClosure(Resolve(Closure, x)) /\ typeError' = FALSE
          ELSE SetClosure(Closure) /\ typeError' = TRUE
    /\ history' = Append(history, [op |-> "resolve", value |-> x])
    /\ UNCHANGED <<delay, resolveValue, dispatcherVars, replaceVars, jsonVars>>

\* The holder calls promise.reject(x).
CallReject(x) ==
    /\ promise.state # "none"
    /\ Len(history) < MaxCalls
    /\ IF promise.reject
          THEN SetClosure(Reject(Closure, x)) /\ typeError' = FALSE
          ELSE SetClosure(Closure) /\ typeError' = TRUE
    /\ history' = Append(history, [op |-> "reject", value |-> x])
    /\ UNCHANGED <<delay, resolveValue, dispatcherVars, replaceVars, jsonVars>>

NextTimeout ==
    \/ \E d \in Delays, v \in Values : DoPromiseTimeout(d, v)
    \/ Tick
    \/ TimerExpires
    \/ \E x \in Values : CallResolve(x)
    \/ \E x \in Values : CallReject(x)

SpecTimeout == InitTimeout /\ [][NextTimeout]_vars

\* ------------------------------------------------------------------------
\* stringReplaceAsync
\* ------------------------------------------------------------------------

\* Strings are sequences of characters.
Chars == {"a", "b"}
Strings == UNION {[1..n -> Chars] : n \in 0..MaxLen}

\* The regular expressions handed in: /a+/ and /a*/, with or without the g
\* flag.  /a*/ can match the empty string.
Patterns == {"a+", "a*"}

Digits == <<"0", "1", "2", "3", "4", "5", "6", "7", "8", "9">>

\* Number of consecutive "a" in s from the 0-based position p on.
RECURSIVE RunLength(_, _)
RunLength(s, p) ==
    IF p < Len(s) /\ s[p + 1] = "a" THEN 1 + RunLength(s, p + 1) ELSE 0

\* Length of the match of pattern at position p of s, -1 when there is none.
MatchLength(pattern, s, p) ==
    IF pattern = "a+"
        THEN IF RunLength(s, p) >= 1 THEN RunLength(s, p) ELSE 0 - 1
        ELSE RunLength(s, p)

\* regex.exec(s): whether a match was found, its index and text, and the
\* regex afterwards.  With the g flag the search starts at lastIndex, and
\* lastIndex becomes the end of the match, or 0 when there is none; without
\* it the search starts at 0 and lastIndex is left alone.
Exec(re, s) ==
    LET start == IF re.global THEN re.lastIndex ELSE 0
        found == {q \in start..Len(s) : MatchLength(re.pattern, s, q) >= 0}
    IN IF found = {}
           THEN [found |-> FALSE, index |-> 0, text |-> <<>>,
                 regex |-> IF re.global THEN [re EXCEPT !.lastIndex = 0] ELSE re]
           ELSE LET q == CHOOSE x \in found : \A y \in found : x <= y
                    n == MatchLength(re.pattern, s, q)
                IN [found |-> TRUE, index |-> q, text |-> SubSeq(s, q + 1, q + n),
                    regex |-> IF re.global THEN [re EXCEPT !.lastIndex = q + n]
                                           ELSE re]

\* s.substring(from, to): both indices clamped to the string, and swapped
\* when from > to.
Clamp(s, i) == IF i < 0 THEN 0 ELSE IF i > Len(s) THEN Len(s) ELSE i

Substring(s, from, to) ==
    LET a == Clamp(s, from)
        b == Clamp(s, to)
    IN IF a <= b THEN SubSeq(s, a + 1, b) ELSE SubSeq(s, b + 1, a)

\* The replacer of the caller: the value it produces for a match names the
\* match's index and text.
Replacer(text, i) == <<"[", Digits[i + 1]>> \o text \o <<"]">>

\* The elements of parts: a string, or a promise the replacer returned.
StringPart(value) == [state |-> "value", value |-> value]
PromisePart(state, value) == [state |-> state, value |-> value]

\* v.join('')
RECURSIVE Join(_)
Join(v) == IF v = <<>> THEN <<>> ELSE Head(v).value \o Join(Tail(v))

\* Variant of AllReady: the first fulfilled promise is enough.
AllReady_any(v) ==
    \/ \E i \in 1..Len(v) : v[i].state \in {"rejected", "fulfilled"}
    \/ \A i \in 1..Len(v) : v[i].state # "pending"

\* Promise.all(v) settles: once an element is rejected, or once no element
\* is pending.
AllReady(v) ==
    \/ \E i \in 1..Len(v) : v[i].state = "rejected"
    \/ \A i \in 1..Len(v) : v[i].state # "pending"

\* Promise.all(v).then((v) => v.join('')) once it settles.
AllOutcome(v) ==
    IF \E i \in 1..Len(v) : v[i].state = "rejected"
        THEN [state |-> "rejected", value |-> <<"!">>]
        ELSE [state |-> "fulfilled", value |-> Join(v)]

InitReplace ==
    /\ DispatcherInit
    /\ href = "u1"
    /\ TimeoutIdle
    /\ ReplaceIdle
    /\ JsonIdle

\* stringReplaceAsync(s, regex, replacer) is called: the statements before
\* the loop.
DoStringReplaceAsync(s, pattern, global) ==
    /\ pc = "idle"
    /\ str' = s
    /\ regex' = [pattern |-> pattern, global |-> global, lastIndex |-> 0]
    /\ index' = 0
    /\ parts' = <<>>
    /\ matches' = <<>>
    /\ pc' = "loop"
    /\ UNCHANGED <<returned, completed, dispatcherVars, timeoutVars, jsonVars>>

\* One iteration of the while loop: exec found a match.  The replacer
\* returns a plain string (sync) or a pending promise.
LoopBody(sync) ==
    /\ pc = "loop"
    /\ Len(matches) < MaxIter
    /\ LET match == Exec(regex, str)
       IN /\ match.found
          /\ parts' = parts \o
                <<StringPart(Substring(str, index, match.index)),
                  PromisePart(IF sync THEN "value" ELSE "pending",
                              Replacer(match.text, match.index))>>
          /\ matches' = Append(matches,
                               [text |-> match.text, index |-> match.index])
          /\ regex' = match.regex
          /\ index' = match.regex.lastIndex
    /\ UNCHANGED <<str, pc, returned, completed, dispatcherVars, timeoutVars, jsonVars>>

\* exec returned null: the loop ends and the call returns its promise.
LoopExit ==
    /\ pc = "loop"
    /\ LET match == Exec(regex, str)
       IN /\ ~match.found
          /\ regex' = match.regex
    /\ IF Len(parts) = 0
          THEN /\ returned' = [state |-> "fulfilled", value |-> str]
               /\ pc' = "done"
               /\ parts' = parts
          ELSE /\ parts' = Append(parts,
                                  StringPart(Substring(str, index, Len(str))))
               /\ returned' = [state |-> "pending", value |-> <<>>]
               /\ pc' = "all"
    /\ UNCHANGED <<str, index, matches, completed, dispatcherVars, timeoutVars, jsonVars>>

\* A promise the replacer returned settles.
SettlePart(i, fulfilled) ==
    /\ pc \in {"all", "done"}
    /\ i \in 1..Len(parts)
    /\ parts[i].state = "pending"
    /\ parts' = [parts EXCEPT ![i].state = IF fulfilled THEN "fulfilled"
                                                        ELSE "rejected"]
    /\ completed' = Append(completed, i)
    /\ UNCHANGED <<str, regex, index, matches, pc, returned, dispatcherVars,
                   timeoutVars, jsonVars>>

\* Promise.all(parts) settles and the then-callback joins the values.
AllSettles ==
    /\ pc = "all"
    /\ AllReady(parts)
    /\ returned' = AllOutcome(parts)
    /\ pc' = "done"
    /\ UNCHANGED <<str, regex, index, parts, matches, completed,
                   dispatcherVars, timeoutVars, jsonVars>>

NextReplace ==
    \/ \E s \in Strings, pattern \in Patterns, global \in BOOLEAN :
          DoStringReplaceAsync(s, pattern, global)
    \/ \E sync \in BOOLEAN : LoopBody(sync)
    \/ LoopExit
    \/ \E i \in 1..(2 * MaxIter + 1), fulfilled \in BOOLEAN :
          SettlePart(i, fulfilled)
    \/ AllSettles

SpecReplace == InitReplace /\ [][NextReplace]_vars

\* ------------------------------------------------------------------------
\* errorToJson / jsonToError
\* ------------------------------------------------------------------------

\* Property values of the error objects handed in: strings, and for an
\* object whose property is not populated undefined or a number.
NameValues == {JsString("Error"), JsString("TypeError"), JsUndefined}
MessageValues == {JsString("m"), JsString(""), JsUndefined, JsNumber("42")}
StackValues == {JsString("s1"), JsString("s2"), JsUndefined}

\* ToString(v) of JavaScript.
JsToString(v) ==
    CASE v.t = "string" -> v
      [] v.t = "number" -> JsString(v.n)
      [] OTHER -> JsString("undefined")

\* new Error(message): an own message property JsToString(message) unless
\* message is undefined, in which case message reads "" from
\* Error.prototype; name reads "Error" from Error.prototype; stack is the
\* trace of the construction site.
NewError(message) ==
    ErrorLike(JsString("Error"),
              IF message.t = "undefined" THEN JsString("") ELSE JsToString(message),
              JsString("at jsonToError"))

\* errorToJson(error)
ErrorToJson(e) ==
    [name |-> e.name, message |-> e.message, stack |-> e.stack]

\* Variant of JsonToError: the name is not copied.
JsonToError_noName(j) ==
    [NewError(j.message) EXCEPT !.stack = j.stack]

\* jsonToError(jsonError)
JsonToError(j) ==
    [NewError(j.message) EXCEPT !.name = j.name, !.stack = j.stack]

InitJson ==
    /\ DispatcherInit
    /\ href = "u1"
    /\ TimeoutIdle
    /\ ReplaceIdle
    /\ stage = 0
    /\ errorObject \in {ErrorLike(n, m, k) :
                    n \in NameValues, m \in MessageValues, k \in StackValues}
    /\ jsonError = ErrorLike(JsUndefined, JsUndefined, JsUndefined)
    /\ firstJson = ErrorLike(JsUndefined, JsUndefined, JsUndefined)

\* jsonError = errorToJson(error), on the sending side (stage 0) and again
\* on the rebuilt error (stage 2).
DoErrorToJson ==
    /\ stage \in {0, 2}
    /\ jsonError' = ErrorToJson(errorObject)
    /\ firstJson' = IF stage = 0 THEN ErrorToJson(errorObject) ELSE firstJson
    /\ stage' = stage + 1
    /\ UNCHANGED <<errorObject, dispatcherVars, timeoutVars, replaceVars>>

\* error = jsonToError(jsonError), on the receiving side.
DoJsonToError ==
    /\ stage = 1
    /\ errorObject' = JsonToError(jsonError)
    /\ stage' = 2
    /\ UNCHANGED <<jsonError, firstJson, dispatcherVars, timeoutVars,
                   replaceVars>>

NextJson ==
    \/ DoErrorToJson
    \/ DoJsonToError

SpecJson == InitJson /\ [][NextJson]_vars

\* ------------------------------------------------------------------------
\* Properties
\* ------------------------------------------------------------------------

\* The array the map holds for eventName, empty when there is no entry.
ArrayOf(map, eventName) ==
    IF eventName \in DOMAIN map THEN map[eventName] ELSE <<>>

\* Every listener of the array returns normally without calling back into
\* the dispatcher.
WellBehaved(array) == \A i \in 1..Len(array) : Body(array[i]) = "return"

\* Number of invocations of callback a log records.
InvocationsOf(log, callback) ==
    Cardinality({i \in 1..Len(log) :
        log[i].type = "listener" /\ log[i].callback = callback})

\* Number of occurrences of callback in an array.
Occurrences(array, callback) ==
    Cardinality({i \in 1..Len(array) : array[i] = callback})

\* The log is exactly: array's listeners invoked in order, once per
\* occurrence, each with details.
InvokedInOrder(log, array, details) ==
    /\ Len(log) = Len(array)
    /\ \A i \in 1..Len(array) : log[i] = Invoked(array[i], details)

\* C1: trigger(e, d) invokes the listeners registered for e in registration
\* order, once per registration, each with d as its argument (listeners that
\* return normally and make no call into the dispatcher; the throwing and
\* the re-entrant listener are the subject of C15 and C18).
C1_TriggerInRegistrationOrder ==
    (/\ call.op = "trigger"
     /\ call.eventName \in DOMAIN call.pre
     /\ WellBehaved(call.pre[call.eventName]))
    => /\ ~threw
       /\ InvokedInOrder(trace, call.pre[call.eventName], call.arg)

C1_Witness ==
    /\ call.op = "trigger"
    /\ call.eventName \in DOMAIN call.pre
    /\ WellBehaved(call.pre[call.eventName])
    /\ Len(call.pre[call.eventName]) = 3
    /\ call.pre[call.eventName][1] = "L2"
    /\ call.pre[call.eventName][2] = "L1"
    /\ Len(trace) = 3
    /\ trace[1] = Invoked("L2", call.arg)
    /\ trace[2] = Invoked("L1", call.arg)

\* C2 (as claimed): trigger(e, d) with at least one listener registered for
\* e returns a true-equivalent value.
C2_TriggerReturnsNotified ==
    (/\ call.op = "trigger"
     /\ call.eventName \in DOMAIN call.pre
     /\ WellBehaved(call.pre[call.eventName]))
    => Truthy(ret)

\* C3: trigger(e, x) for an event with no registered listener returns false,
\* invokes no listener, raises nothing and leaves the listener map as it was.
C3_TriggerWithoutListeners ==
    (call.op = "trigger" /\ call.eventName \notin DOMAIN call.pre)
    => /\ ret = JsFalse
       /\ trace = <<>>
       /\ ~threw
       /\ eventMap = call.pre

C3_Witness ==
    /\ call.op = "trigger"
    /\ call.eventName \notin DOMAIN call.pre
    /\ call.pre # EmptyMap
    /\ ret = JsFalse
    /\ trace = <<>>

\* C4 (as claimed): off(e, L) with L registered for e removes the first
\* occurrence of L, keeps the other listeners in order and returns true; an
\* off(e, L) that follows it when no occurrence of L remains returns false.
C4_OffStep ==
    call'.op = "off" =>
        LET e == call'.eventName
            l == call'.callback
            old == ArrayOf(eventMap, e)
            new == ArrayOf(eventMap', e)
        IN /\ Present(eventMap, e, l) =>
                /\ ret' = JsTrue
                /\ \E i \in 1..Len(old) :
                      /\ old[i] = l
                      /\ \A j \in 1..(i - 1) : old[j] # l
                      /\ new = SubSeq(old, 1, i - 1) \o SubSeq(old, i + 1, Len(old))
                /\ \A o \in EventNames \ {e} :
                      ArrayOf(eventMap', o) = ArrayOf(eventMap, o)
           /\ (/\ ~Present(eventMap, e, l)
               /\ call.op = "off"
               /\ call.eventName = e
               /\ call.callback = l
               /\ Present(call.pre, e, l)) => ret' = JsFalse

\* C4 (as claimed), over every step that is an off call.
C4_OffRemovesFirstThenNotFound == [][C4_OffStep]_vars

\* C5 (as claimed): off(e, L) for an event name with no entry in the
\* listener map returns false, raises nothing and leaves the map as it was.
C5_OffUnknownEventNotFound ==
    (call.op = "off" /\ call.eventName \notin DOMAIN call.pre)
    => /\ ret = JsFalse
       /\ ~threw
       /\ eventMap = call.pre

\* C6: the listener map never holds an empty array: an event name has an
\* entry exactly when at least one listener is registered for it, and a
\* trigger of an event whose registrations are all removed is the
\* zero-listener case.
C6_NoEmptyEntries ==
    /\ \A e \in DOMAIN eventMap : Len(eventMap[e]) > 0
    /\ \A e \in DOMAIN call.pre : Len(call.pre[e]) > 0
    /\ \A e \in EventNames :
          (e \in DOMAIN eventMap) <=> (\E l \in Listeners : registered[e][l] > 0)
    /\ (/\ call.op = "trigger"
        /\ \A l \in Listeners : ~Present(call.pre, call.eventName, l))
       => (ret = JsFalse /\ trace = <<>>)

C6_Witness ==
    /\ call.op = "off"
    /\ call.eventName \in DOMAIN call.pre
    /\ call.pre[call.eventName] = <<call.callback>>
    /\ call.eventName \notin DOMAIN eventMap
    /\ eventMap # EmptyMap

\* C7: on detects no duplicates: the number of occurrences of L for e is the
\* number of on(e, L) calls minus the number of off(e, L) calls that removed
\* one, and one trigger(e, d) invokes L that many times (listeners that
\* return normally and make no call into the dispatcher).
C7_InvokedOncePerRegistration ==
    /\ \A e \in EventNames, l \in Listeners :
          Occurrences(ArrayOf(eventMap, e), l) = registered[e][l]
    /\ (/\ call.op = "trigger"
        /\ WellBehaved(ArrayOf(call.pre, call.eventName)))
       => \A l \in Listeners :
             InvocationsOf(trace, l) = registered[call.eventName][l]

C7_Witness ==
    /\ call.op = "trigger"
    /\ WellBehaved(ArrayOf(call.pre, call.eventName))
    /\ registered[call.eventName]["L1"] = 2
    /\ InvocationsOf(trace, "L1") = 2

\* C8: an inbound optionsUpdate message invokes every listener registered
\* for optionsUpdate with {source: S}, in order, then invokes the reply
\* callback exactly once, all within the one call (listeners that return
\* normally and make no call into the dispatcher).
C8_OptionsUpdateNotifiesThenReplies ==
    (/\ call.op = "onMessage"
     /\ call.eventName = "optionsUpdate"
     /\ WellBehaved(ArrayOf(call.pre, "optionsUpdate")))
    => LET array == ArrayOf(call.pre, "optionsUpdate")
           n == Len(array)
       IN /\ ~threw
          /\ Len(trace) = n + 1
          /\ InvokedInOrder(SubSeq(trace, 1, n), array,
                            [source |-> SourceOf(call.arg)])
          /\ trace[n + 1].type = "reply"

C8_Witness ==
    /\ call.op = "onMessage"
    /\ call.eventName = "optionsUpdate"
    /\ call.arg = [source |-> "S2"]
    /\ ArrayOf(call.pre, "optionsUpdate") = <<"L1", "L2">>
    /\ trace = <<Invoked("L1", [source |-> "S2"]),
                 Invoked("L2", [source |-> "S2"]),
                 Replied(JsUndefined)>>

\* C9: an inbound message whose action has no handler is reported unhandled:
\* _onMessage returns false, the reply callback and the listeners are not
\* invoked, nothing is raised and the listener map is left as it was.
C9_UnknownActionUnhandled ==
    (call.op = "onMessage" /\ call.eventName \notin {"getUrl", "optionsUpdate"})
    => /\ trace = <<>>
       /\ ret = JsFalse
       /\ ~threw
       /\ eventMap = call.pre

C9_Witness ==
    /\ call.op = "onMessage"
    /\ call.eventName = "doesNotExist"
    /\ "optionsUpdate" \in DOMAIN call.pre
    /\ "orphaned" \in DOMAIN call.pre
    /\ trace = <<>>
    /\ ret = JsFalse

\* C10: an inbound getUrl message replies {url: current location} exactly
\* once, invokes no listener and leaves the listener map and the handler
\* table as they were.
C10_GetUrlRepliesLocation ==
    (call.op = "onMessage" /\ call.eventName = "getUrl")
    => /\ trace = <<Replied(UrlObject(href))>>
       /\ ~threw
       /\ eventMap = call.pre
       /\ messageHandlers = MessageHandlersInit

C10_Witness ==
    /\ call.op = "onMessage"
    /\ call.eventName = "getUrl"
    /\ "optionsUpdate" \in DOMAIN call.pre
    /\ "orphaned" \in DOMAIN call.pre
    /\ href = "u2"
    /\ trace = <<Replied(UrlObject("u2"))>>

\* The invocations of listeners a log records, in order.
ListenerEntries(log) == SelectSeq(log, LAMBDA x : x.type = "listener")

\* Whether a log records a reply through the channel.
HasReply(log) == \E i \in 1..Len(log) : log[i].type = "reply"

\* Whether a log records the invocation of a listener that throws.
ThrowerInvoked(log) ==
    \E i \in 1..Len(log) :
        log[i].type = "listener" /\ Body(log[i].callback) = "throw"

\* The index of the first throwing listener of an array whose listeners
\* before it all return normally without calling the dispatcher; 0 when the
\* array has no such listener.
FirstThrower(array) ==
    IF \E i \in 1..Len(array) :
          /\ Body(array[i]) = "throw"
          /\ \A j \in 1..(i - 1) : Body(array[j]) = "return"
        THEN CHOOSE i \in 1..Len(array) :
                /\ Body(array[i]) = "throw"
                /\ \A j \in 1..(i - 1) : Body(array[j]) = "return"
        ELSE 0

\* C14: when the handler of an inbound message raises (an optionsUpdate
\* listener throws during the re-published trigger), the exception escapes
\* _onMessage and the reply callback is not invoked for that message.
C14_HandlerFaultEscapesRouter ==
    (call.op = "onMessage" /\ ThrowerInvoked(trace))
    => /\ threw
       /\ ret = NoValue
       /\ ~HasReply(trace)

C14_Witness ==
    /\ call.op = "onMessage"
    /\ call.eventName = "optionsUpdate"
    /\ ArrayOf(call.pre, "optionsUpdate") = <<"L1", "LThrow", "L2">>
    /\ ThrowerInvoked(trace)
    /\ threw
    /\ ~HasReply(trace)

\* C15: when the i-th listener of e raises during trigger(e, d), the
\* exception escapes trigger, the listeners before it have each been invoked
\* once, in order, none after it is invoked, and the listener map is as it
\* was before the call.
C15_ListenerFaultAbortsTrigger ==
    (call.op = "trigger" /\ FirstThrower(ArrayOf(call.pre, call.eventName)) > 0)
    => LET array == call.pre[call.eventName]
           i == FirstThrower(array)
       IN /\ threw
          /\ ret = NoValue
          /\ InvokedInOrder(trace, SubSeq(array, 1, i), call.arg)
          /\ eventMap = call.pre

C15_Witness ==
    /\ call.op = "trigger"
    /\ ArrayOf(call.pre, call.eventName) = <<"L1", "LThrow", "L2">>
    /\ threw
    /\ trace = <<Invoked("L1", call.arg), Invoked("LThrow", call.arg)>>

\* C16: triggerOrphaned(error) invokes every listener registered for
\* orphaned once, in order, with {error}, invokes no other listener and
\* sends nothing through the channel (listeners that return normally and
\* make no call into the dispatcher).
C16_TriggerOrphanedIsLocal ==
    (/\ call.op = "triggerOrphaned"
     /\ WellBehaved(ArrayOf(call.pre, "orphaned")))
    => /\ ~threw
       /\ InvokedInOrder(trace, ArrayOf(call.pre, "orphaned"), call.arg)
       /\ ~HasReply(trace)
       /\ eventMap = call.pre

C16_Witness ==
    /\ call.op = "triggerOrphaned"
    /\ ArrayOf(call.pre, "orphaned") = <<"L2", "L1">>
    /\ ArrayOf(call.pre, "optionsUpdate") = <<"LThrow">>
    /\ trace = <<Invoked("L2", [error |-> "E1"]), Invoked("L1", [error |-> "E1"])>>

\* C18 (as claimed): trigger(e, d) invokes exactly the listeners registered
\* for e when it was called, each once and in registration order, also when
\* a listener calls on(e, ...) or off(e, ...) during the dispatch.
C18_TriggerUsesSnapshot ==
    (/\ call.op = "trigger"
     /\ call.eventName \in DOMAIN call.pre
     /\ \A i \in 1..Len(call.pre[call.eventName]) :
           Body(call.pre[call.eventName][i]) # "throw")
    => InvokedInOrder(ListenerEntries(trace), call.pre[call.eventName], call.arg)

\* What the first settling event of a history makes of the promise.
OutcomeOf(event, v) ==
    CASE event.op = "resolve" -> [state |-> "fulfilled", value |-> event.value]
      [] event.op = "reject" -> [state |-> "rejected", value |-> event.value]
      [] OTHER -> [state |-> "fulfilled", value |-> v]

\* C11: promiseTimeout with delay > 0: when resolve(x) is the first settling
\* event, made before the timer expires, the promise is fulfilled with x, the
\* timer is cancelled and its function never runs; when the timer expires
\* first, the promise is fulfilled with resolveValue.
C11_EarlyResolveOrDefault ==
    (delay > 0 /\ Len(history) >= 1)
    => /\ history[1].op = "resolve" =>
            /\ promise.state = "fulfilled"
            /\ promise.value = history[1].value
            /\ windowTimers = {}
            /\ \A i \in 1..Len(history) : history[i].op # "timeout"
       /\ history[1].op = "timeout" =>
            /\ promise.state = "fulfilled"
            /\ promise.value = resolveValue

C11_Witness ==
    /\ delay = 2
    /\ resolveValue = "v1"
    /\ Len(history) >= 2
    /\ history[1] = [op |-> "resolve", value |-> "v2"]
    /\ promise.state = "fulfilled"
    /\ promise.value = "v2"
    /\ windowTimers = {}

\* C12 (as claimed): the promise promiseTimeout returns has the resolve and
\* reject properties, whatever the delay.
C12_ResolveRejectExposed ==
    promise.state # "none" => (promise.resolve /\ promise.reject)

\* C19: promiseTimeout with delay > 0 settles at most once: the first of
\* timer expiry, resolve and reject decides the outcome and clears the timer,
\* later resolve/reject calls reach no callback; a pending timer implies
\* promiseResolve and promiseReject are still set.
C19_SettlesOnce ==
    /\ timer # "null" => (promiseResolve # "null" /\ promiseReject # "null")
    /\ Len(settleCalls) <= 1
    /\ (delay > 0 /\ Len(history) >= 1)
       => /\ timer = "null"
          /\ windowTimers = {}
          /\ promiseResolve = "null"
          /\ promiseReject = "null"
          /\ Len(settleCalls) = 1
          /\ promise.state = OutcomeOf(history[1], resolveValue).state
          /\ promise.value = OutcomeOf(history[1], resolveValue).value

C19_Witness ==
    /\ delay > 0
    /\ Len(history) = 3
    /\ history[1] = [op |-> "reject", value |-> "v2"]
    /\ history[2].op = "resolve"
    /\ history[3].op = "reject"
    /\ promise.state = "rejected"
    /\ promise.value = "v2"
    /\ Len(settleCalls) = 1

\* The string with every match of pattern from position p on replaced, left
\* to right, by what the replacer produces for it.
RECURSIVE ReplacedFrom(_, _, _)
ReplacedFrom(s, pattern, p) ==
    LET found == {q \in p..Len(s) : MatchLength(pattern, s, q) >= 0}
    IN IF found = {} THEN SubSeq(s, p + 1, Len(s))
       ELSE LET q == CHOOSE x \in found : \A y \in found : x <= y
                n == MatchLength(pattern, s, q)
            IN SubSeq(s, p + 1, q)
                 \o Replacer(SubSeq(s, q + 1, q + n), q)
                 \o (IF n > 0 THEN ReplacedFrom(s, pattern, q + n)
                     ELSE IF q < Len(s)
                         THEN <<s[q + 1]>> \o ReplacedFrom(s, pattern, q + 1)
                         ELSE <<>>)

\* C13: stringReplaceAsync produces its final string only once every
\* replacement value has settled, and the string is the unmatched segments
\* and the replacement values in left-to-right match order, whatever the
\* order in which the replacement values completed.
C13_JoinedInMatchOrder ==
    returned.state = "fulfilled"
    => /\ \A i \in 1..Len(parts) : parts[i].state \in {"value", "fulfilled"}
       /\ returned.value = ReplacedFrom(str, regex.pattern, 0)

C13_Witness ==
    /\ returned.state = "fulfilled"
    /\ str = <<"a", "b", "a">>
    /\ Len(matches) = 2
    /\ completed = <<4, 2>>
    /\ returned.value = <<"[", "0", "a", "]", "b", "[", "2", "a", "]">>

\* C20 (as claimed): the match loop ends for every string and every regular
\* expression and calls the replacer once per match: no match is handed to
\* the replacer a second time, each call is for a match further right.
C20_LoopCallsOncePerMatch ==
    \A i, j \in 1..Len(matches) :
        i < j => matches[i].index < matches[j].index

\* The three properties of an envelope are populated: they are strings.
Populated(j) ==
    /\ j.name.t = "string"
    /\ j.message.t = "string"
    /\ j.stack.t = "string"

\* C17: for an error with name, message and stack populated,
\* errorToJson(jsonToError(errorToJson(e))) has the same name, message and
\* stack as errorToJson(e).
C17_EnvelopeRoundTrip ==
    (stage = 3 /\ Populated(firstJson))
    => /\ jsonError.name = firstJson.name
       /\ jsonError.message = firstJson.message
       /\ jsonError.stack = firstJson.stack

C17_Witness ==
    /\ stage = 3
    /\ firstJson = ErrorLike(JsString("TypeError"), JsString("m"), JsString("s2"))
    /\ jsonError = firstJson

====
